---- MODULE Spec2Model ----
(***************************************************************************)
(* Coordinate-ascent optimizer of crates/strategy_optimizers/src/          *)
(* optimization.py: class Optimization (optimize_all, optimize_one,        *)
(* func_to_optimize, _gather_params_to_pass).                              *)
(*                                                                         *)
(* Numbers.  A Python number is the record [t, v, s] with t its runtime    *)
(* type ("int" or "float") and v its magnitude in tenths (6.7 is v = 67,   *)
(* the int 7 is v = 70); a Python str is [t |-> "str", s |-> characters].  *)
(* Scores are kept in hundredths, the unit of a product of two magnitudes. *)
(***************************************************************************)
EXTENDS Integers, Sequences, FiniteSets, TLC

VARIABLES
    pc,                 \* position of the driver: "start", "loop", "minimize",
                        \* "check", "done", "error" ("codec" under CodecSpec)
    err,                \* the exception that ended the run ("" if none)
    function,           \* the objective handed to optimize_all
    params,             \* argument params of optimize_all
    bounds,             \* argument bounds of optimize_all
    best_result,        \* local best_result of optimize_all
    result_of_all_params_iteration,  \* local of optimize_all (sweep_result)
    i,                  \* loop index of `for i in range(len(params))`
    current_param,      \* local current_param of optimize_all
    fixed_params,       \* local fixed_params of optimize_all
    results_of_single_param_optimization,  \* class attribute: the history
    params_to_pass,     \* local params_to_pass of the last func_to_optimize
    candidate,          \* param[0] of the last func_to_optimize (a float)
    echoed,             \* settings echoed by the objective in that call
    returned,           \* value returned by optimize_all
    sweeps,             \* number of sweeps (passes of `while True`) started
    calls,              \* number of optimize_one calls started
    evaluated,          \* whether the objective was ever invoked
    held_before_sweep,  \* result_of_all_params_iteration when the sweep began
    solver_value,       \* what the last func_to_optimize returned to the solver
    objective_state,    \* memory of the objective (0 for a pure objective)
    invocations         \* the optimize_one invocations running side by side
                        \* (under SharedSpec): their arguments and outcome

vars == <<pc, err, function, params, bounds, best_result,
          result_of_all_params_iteration, i, current_param, fixed_params,
          results_of_single_param_optimization, params_to_pass, candidate,
          echoed, returned, sweeps, calls, evaluated, held_before_sweep,
          solver_value, objective_state, invocations>>

---------------------------------------------------------------------------
(* Bounds of the model *)

MaxDims == 2      \* longest params / bounds sequence
MaxEvals == 2     \* most objective evaluations the solver makes in one call
MaxSweeps == 5    \* sweeps after which the unbounded `while True` is cut off

(* Program constant *)

MIN_DIFF_BETWEEN_ITERATIONS == 30

---------------------------------------------------------------------------
(* Python values *)

PyInt(k) == [t |-> "int", v |-> 10 * k, s |-> <<>>]
PyFloat(v) == [t |-> "float", v |-> v, s |-> <<>>]
PyStr(chars) == [t |-> "str", v |-> 0, s |-> chars]

Abs(x) == IF x < 0 THEN -x ELSE x

\* round(x) of v tenths: the nearest integer, a half going to the even one.
RoundHalfEven(v) ==
    LET q == v \div 10
        r == v - 10 * q
    IN  IF r < 5 THEN q
        ELSE IF r > 5 THEN q + 1
        ELSE IF q % 2 = 0 THEN q ELSE q + 1

\* int(x) as round(x) would give it.
ToInt_rounding(x) == PyInt(RoundHalfEven(x.v))

\* int(x): the magnitude truncated toward zero, as a Python int.
ToInt(x) ==
    PyInt(IF x.v >= 0 THEN x.v \div 10 ELSE -((-x.v) \div 10))

\* float(x)
ToFloat(x) == PyFloat(x.v)

DigitChar == <<"0", "1", "2", "3", "4", "5", "6", "7", "8", "9">>

RECURSIVE Digits(_)
Digits(n) ==
    IF n < 10 THEN <<DigitChar[n + 1]>>
              ELSE Digits(n \div 10) \o <<DigitChar[(n % 10) + 1]>>

\* str(x) of a number: "79" for an int, "6.7" / "10.0" for a float.
StrOf(x) ==
    LET sign == IF x.v < 0 THEN <<"-">> ELSE <<>>
        a == Abs(x.v)
    IN  IF x.t = "int"
        THEN sign \o Digits(a \div 10)
        ELSE sign \o Digits(a \div 10) \o <<".">> \o Digits(a % 10)

\* f"{value}k"
RatioWire(x) == PyStr(StrOf(x) \o <<"k">>)

DigitVal(c) == CHOOSE d \in 0..9 : DigitChar[d + 1] = c

RECURSIVE DigitsVal(_)
DigitsVal(cs) ==
    IF cs = <<>> THEN 0
    ELSE 10 * DigitsVal(SubSeq(cs, 1, Len(cs) - 1)) + DigitVal(cs[Len(cs)])

\* float(text) of decimal text with at most one fractional digit, in tenths.
ParseFloat(cs) ==
    LET neg == cs # <<>> /\ cs[1] = "-"
        body == IF neg THEN SubSeq(cs, 2, Len(cs)) ELSE cs
        dots == {k \in 1..Len(body) : body[k] = "."}
        mag == IF dots = {}
               THEN 10 * DigitsVal(body)
               ELSE LET d == CHOOSE k \in dots : TRUE
                        frac == SubSeq(body, d + 1, Len(body))
                    IN  10 * DigitsVal(SubSeq(body, 1, d - 1))
                        + (IF frac = <<>> THEN 0 ELSE DigitVal(frac[1]))
    IN  PyFloat(IF neg THEN -mag ELSE mag)

\* setting[:-1]
AllButLast(cs) == SubSeq(cs, 1, Len(cs) - 1)

---------------------------------------------------------------------------
(* Param, Result *)

Param(value, ratio, is_int, id) ==
    [value |-> value, ratio |-> ratio, is_int |-> is_int, id |-> id]

Result(value, settings, call) ==
    [value |-> value, settings |-> settings, call |-> call]

NoParam == Param(PyFloat(0), FALSE, FALSE, 0)
NoResult == Result(0, <<>>, -1)

---------------------------------------------------------------------------
(* _gather_params_to_pass *)

\* One element of the wire sequence: f"{value}k" for a ratio, else int(value)
\* or float(value).
Encode(value, ratio, is_int) ==
    IF ratio THEN RatioWire(value)
    ELSE IF is_int THEN ToInt(value) ELSE ToFloat(value)

\* An insert that ignores the index and appends.
ListInsert_append(seq, index, x) == Append(seq, x)

\* list.insert(index, x), index counted from 0; an index past the end appends.
ListInsert(seq, index, x) ==
    LET k == IF index > Len(seq) THEN Len(seq) ELSE index
    IN  SubSeq(seq, 1, k) \o <<x>> \o SubSeq(seq, k + 1, Len(seq))

gather_params_to_pass(param, param_index, param_ratio, is_param_int, fixed) ==
    LET result_params ==
            [k \in 1..Len(fixed) |->
                Encode(fixed[k].value, fixed[k].ratio, fixed[k].is_int)]
    IN  ListInsert(result_params, param_index,
                   Encode(param, param_ratio, is_param_int))

---------------------------------------------------------------------------
(* The objective: a score and the echoed settings *)

\* The magnitude an objective reads from a wire value (a ratio is parsed from
\* its text without the trailing marker).
NumOf(e) == IF e.t = "str" THEN ParseFloat(AllButLast(e.s)).v ELSE e.v

RECURSIVE SumOver(_, _)
SumOver(seq, k) ==
    IF k = 0 THEN 0 ELSE SumOver(seq, k - 1) + seq[k]

\* "negsq": -sum (x - 7)^2;  "lin": sum 5 * x.   (hundredths)
Score(kind, passed) ==
    LET term(e) == IF kind = "negsq"
                   THEN -((NumOf(e) - 70) * (NumOf(e) - 70))
                   ELSE 50 * NumOf(e)
    IN  SumOver([k \in 1..Len(passed) |-> term(passed[k])], Len(passed))

\* "same": the sequence received; "drop": without its last element;
\* "extra": with one more element.
Echo(kind, passed) ==
    CASE kind = "same" -> passed
      [] kind = "drop" -> AllButLast(passed)
      [] kind = "extra" -> Append(passed, PyFloat(0))

\* What the objective returns as score when its memory is state: a pure
\* objective scores its input; "rising" ignores it and returns 30 more at
\* every evaluation.
ObjectiveScore(kind, passed, state) ==
    IF kind = "rising" THEN 100 * MIN_DIFF_BETWEEN_ITERATIONS * (state + 1)
                       ELSE Score(kind, passed)

\* The objective's memory after an evaluation.
ObjectiveNextState(kind, state) ==
    IF kind = "rising" THEN state + 1 ELSE state

Objectives ==
    { [score |-> "negsq", echo |-> "same"],
      [score |-> "lin", echo |-> "same"],
      [score |-> "lin", echo |-> "drop"],
      [score |-> "lin", echo |-> "extra"],
      [score |-> "rising", echo |-> "same"] }

---------------------------------------------------------------------------
(* func_to_optimize: decoding and recording *)

\* Decoding that takes every setting that is not a float for an int.
Decode_not_float(setting, id) ==
    Param(IF setting.t = "str" THEN ParseFloat(AllButLast(setting.s))
                               ELSE setting,
          setting.t = "str", setting.t # "float", id)

\* Param(value=float(setting[:-1]) if str else setting,
\*       ratio=isinstance(setting, str), is_int=isinstance(setting, int));
\* each Param is a new object (id: its position in the new tuple).
Decode(setting, id) ==
    Param(IF setting.t = "str" THEN ParseFloat(AllButLast(setting.s))
                               ELSE setting,
          setting.t = "str", setting.t = "int", id)

settings_params_of(settings) ==
    [k \in 1..Len(settings) |-> Decode(settings[k], k)]

\* return -result
Negated(result) == -result

\* A clear that leaves the history as it is.
Cleared_kept(history) == history

\* results_of_single_param_optimization.clear()
Cleared(history) == <<>>

\* The history with the solver's final point first, the point a solver reports
\* as its optimum.
SortDescending_final_point(seq) ==
    [k \in 1..Len(seq) |-> seq[Len(seq) + 1 - k]]

\* results.sort(key=value, reverse=True): stable, so equal values keep the
\* order in which they were recorded.
SortDescending(seq) ==
    LET before(j, k) ==
            \/ seq[j].value > seq[k].value
            \/ (seq[j].value = seq[k].value /\ j < k)
        place(k) == Cardinality({j \in 1..Len(seq) : before(j, k)}) + 1
    IN  [p \in 1..Len(seq) |-> seq[CHOOSE k \in 1..Len(seq) : place(k) = p]]

---------------------------------------------------------------------------
(* optimize_all *)

\* tuple(param for param in settings if param is not current): identity test.
FixedParams(settings, current) ==
    SelectSeq(settings, LAMBDA p : p.id # current.id)

\* The convergence test with the difference taken the other way round.
Converged_reversed(best, previous) ==
    previous.value - best.value < 100 * MIN_DIFF_BETWEEN_ITERATIONS

\* The convergence test without a threshold: any gain sweeps again.
Converged_any_gain(best, previous) ==
    best.value - previous.value <= 0

\* The convergence test that asks for a loss beyond the threshold.
Converged_on_loss(best, previous) ==
    best.value - previous.value < -(100 * MIN_DIFF_BETWEEN_ITERATIONS)

\* The convergence test with <= in place of <.
Converged_inclusive(best, previous) ==
    best.value - previous.value <= 100 * MIN_DIFF_BETWEEN_ITERATIONS

\* best_result.value - result_of_all_params_iteration.value < MIN_DIFF
Converged(best, previous) ==
    best.value - previous.value < 100 * MIN_DIFF_BETWEEN_ITERATIONS

\* Returning the result of the sweep that has just ended.
ConvergedReturn_latest(best, previous) == best

\* the return statement of the convergence branch
ConvergedReturn(best, previous) == previous

\* A driver that keeps the better of the two Results.
OverwriteBest_if_better(old, new) ==
    IF new.value > old.value THEN new ELSE old

\* best_result = cls.optimize_one(...): the returned Result replaces the old
\* one whatever their values.
OverwriteBest(old, new) == new

\* The length check testing one direction only.
LengthsDiffer_longer(ps, bs) == Len(ps) > Len(bs)

\* len(params) != len(bounds)
LengthsDiffer(ps, bs) == Len(ps) # Len(bs)

---------------------------------------------------------------------------
(* Inputs *)

\* Points of the search interval the solver may try, in tenths.
Grid == {67}

BoundChoices == { <<0, 100>> }

\* value, ratio, is_int of the Params a caller may pass.
ParamChoices ==
    { <<PyInt(5), FALSE, TRUE>>,
      <<PyInt(10), TRUE, FALSE>>,
      <<PyFloat(15), FALSE, FALSE>> }

\* Which object stands at each position: position k holds a new object
\* (ids[k] = k) or the object of an earlier position.
Identities(n) ==
    {ids \in [1..n -> 1..n] :
        \A k \in 1..n : ids[k] <= k /\ ids[ids[k]] = ids[k]}

InitialParams(n) ==
    {[k \in 1..n |-> Param(c[ids[k]][1], c[ids[k]][2], c[ids[k]][3], ids[k])] :
        c \in [1..n -> ParamChoices], ids \in Identities(n)}

\* The params an objective is run on: the "rising" objective ignores the
\* values it is given, and is started on the grid point (a float 6.7 in every
\* dimension); every other objective is run on all of InitialParams.
InitialParamsFor(objective, n) ==
    IF objective.score = "rising"
    THEN {[k \in 1..n |-> Param(PyFloat(67), FALSE, FALSE, k)]}
    ELSE InitialParams(n)

\* The points the solver may evaluate: its start point and the grid points
\* inside the bounds.
Candidates(param, param_bounds) ==
    {param.value.v} \cup
    {g \in Grid : param_bounds[1] <= g /\ g <= param_bounds[2]}

---------------------------------------------------------------------------
(* The driver *)

Init ==
    /\ pc = "start"
    /\ err = ""
    /\ function \in Objectives
    /\ \E n \in 0..MaxDims : params \in InitialParamsFor(function, n)
    /\ \E m \in 0..MaxDims : bounds \in [1..m -> BoundChoices]
    /\ best_result = NoResult
    /\ result_of_all_params_iteration = NoResult
    /\ i = 0
    /\ current_param = NoParam
    /\ fixed_params = <<>>
    /\ results_of_single_param_optimization = <<>>
    /\ params_to_pass = <<>>
    /\ candidate = PyFloat(0)
    /\ echoed = <<>>
    /\ returned = NoResult
    /\ sweeps = 0
    /\ calls = 0
    /\ evaluated = FALSE
    /\ held_before_sweep = NoResult
    /\ solver_value = 0
    /\ objective_state = 0
    /\ invocations = <<>>

\* Where the `for` loop goes when a sweep begins: into its body, or past it
\* when there is no dimension.
SweepEntry == IF Len(params) = 0 THEN "check" ELSE "loop"

\* optimize_all up to the first sweep: the length check, the clear, the two
\* sentinels.
optimize_all_enter ==
    /\ pc = "start"
    /\ IF LengthsDiffer(params, bounds)
       THEN /\ pc' = "error"
            /\ err' = "DifferentListLengthException"
            /\ UNCHANGED <<best_result, result_of_all_params_iteration,
                           results_of_single_param_optimization, sweeps,
                           held_before_sweep>>
       ELSE /\ pc' = SweepEntry
            /\ results_of_single_param_optimization' =
                   Cleared(results_of_single_param_optimization)
            /\ best_result' = Result(0, params, 0)
            /\ result_of_all_params_iteration' = Result(0, params, 0)
            /\ held_before_sweep' = Result(0, params, 0)
            /\ sweeps' = 1
            /\ UNCHANGED err
    /\ UNCHANGED <<function, params, bounds, i, current_param, fixed_params,
                   params_to_pass, candidate, echoed, returned, calls,
                   evaluated, solver_value, objective_state, invocations>>

\* The loop body up to the solver: current_param, fixed_params, and the
\* clear with which optimize_one begins.
optimize_all_step ==
    /\ pc = "loop"
    /\ IF i + 1 > Len(best_result.settings)
       THEN /\ pc' = "error"
            /\ err' = "IndexError"
            /\ UNCHANGED <<current_param, fixed_params, calls,
                           results_of_single_param_optimization>>
       ELSE /\ current_param' = best_result.settings[i + 1]
            /\ fixed_params' =
                   FixedParams(best_result.settings, best_result.settings[i + 1])
            /\ results_of_single_param_optimization' =
                   Cleared(results_of_single_param_optimization)
            /\ calls' = calls + 1
            /\ pc' = "minimize"
            /\ UNCHANGED err
    /\ UNCHANGED <<function, params, bounds, best_result,
                   result_of_all_params_iteration, i, params_to_pass,
                   candidate, echoed, returned, sweeps, evaluated,
                   held_before_sweep, solver_value, objective_state,
                   invocations>>

\* One evaluation by the solver: func_to_optimize at the point x.
func_to_optimize(x) ==
    /\ pc = "minimize"
    /\ Len(results_of_single_param_optimization) < MaxEvals
    /\ LET passed == gather_params_to_pass(PyFloat(x), i, current_param.ratio,
                                           current_param.is_int, fixed_params)
           result == ObjectiveScore(function.score, passed, objective_state)
           settings == Echo(function.echo, passed)
       IN  /\ candidate' = PyFloat(x)
           /\ solver_value' = Negated(result)
           /\ params_to_pass' = passed
           /\ echoed' = settings
           /\ results_of_single_param_optimization' =
                  Append(results_of_single_param_optimization,
                         Result(result, settings_params_of(settings), calls))
    /\ objective_state' = ObjectiveNextState(function.score, objective_state)
    /\ evaluated' = TRUE
    /\ UNCHANGED <<pc, err, function, params, bounds, best_result,
                   result_of_all_params_iteration, i, current_param,
                   fixed_params, returned, sweeps, calls, held_before_sweep,
                   invocations>>

\* The solver returns: optimize_one sorts the history and returns its head,
\* which optimize_all stores in best_result.  The locals of the last
\* func_to_optimize are gone.
optimize_one_return ==
    /\ pc = "minimize"
    /\ LET sorted == SortDescending(results_of_single_param_optimization)
       IN  /\ results_of_single_param_optimization' = sorted
           /\ IF sorted = <<>>
              THEN /\ pc' = "error"
                   /\ err' = "IndexError"
                   /\ UNCHANGED <<best_result, i>>
              ELSE /\ best_result' = OverwriteBest(best_result, sorted[1])
                   /\ i' = i + 1
                   /\ pc' = IF i + 1 < Len(params) THEN "loop" ELSE "check"
                   /\ UNCHANGED err
    /\ params_to_pass' = <<>>
    /\ candidate' = PyFloat(0)
    /\ echoed' = <<>>
    /\ solver_value' = 0
    /\ UNCHANGED <<function, params, bounds, result_of_all_params_iteration,
                   current_param, fixed_params, returned, sweeps, calls,
                   evaluated, held_before_sweep, objective_state, invocations>>

\* After the `for` loop: return on convergence, else keep best_result and
\* sweep again.
optimize_all_sweep_end ==
    /\ pc = "check"
    /\ IF Converged(best_result, result_of_all_params_iteration)
       THEN /\ pc' = "done"
            /\ returned' =
                   ConvergedReturn(best_result, result_of_all_params_iteration)
            /\ UNCHANGED <<result_of_all_params_iteration, i, sweeps,
                           held_before_sweep>>
       ELSE /\ sweeps < MaxSweeps
            /\ result_of_all_params_iteration' = best_result
            /\ held_before_sweep' = best_result
            /\ i' = 0
            /\ sweeps' = sweeps + 1
            /\ pc' = SweepEntry
            /\ UNCHANGED returned
    /\ UNCHANGED <<err, function, params, bounds, best_result, current_param,
                   fixed_params, results_of_single_param_optimization,
                   params_to_pass, candidate, echoed, calls, evaluated,
                   solver_value, objective_state, invocations>>

\* minimize(tuned_function, [param.value], bounds=(bounds[i],)): the points the
\* running solver may evaluate next.
SolverPoints ==
    IF pc = "minimize" THEN Candidates(current_param, bounds[i + 1]) ELSE {}

Next ==
    \/ optimize_all_enter
    \/ optimize_all_step
    \/ \E x \in SolverPoints : func_to_optimize(x)
    \/ optimize_one_return
    \/ optimize_all_sweep_end

Spec == Init /\ [][Next]_vars

\* The program runs on its own: the interpreter takes the next statement of
\* optimize_all whenever there is one, and a call of minimize comes back
\* after the evaluations the solver chose to make (it owes no further one).
FairSpec ==
    /\ Spec
    /\ WF_vars(optimize_all_enter)
    /\ WF_vars(optimize_all_step)
    /\ WF_vars(optimize_one_return)
    /\ WF_vars(optimize_all_sweep_end)

\* optimize_all on one dimension more than MaxDims, with an objective that
\* echoes what it receives: the shortest params in which one object stands at
\* two positions and another object beside them.
ModeInit ==
    /\ pc = "start"
    /\ err = ""
    /\ function = [score |-> "lin", echo |-> "same"]
    /\ params \in InitialParams(MaxDims + 1)
    /\ bounds \in [1..(MaxDims + 1) -> BoundChoices]
    /\ best_result = NoResult
    /\ result_of_all_params_iteration = NoResult
    /\ i = 0
    /\ current_param = NoParam
    /\ fixed_params = <<>>
    /\ results_of_single_param_optimization = <<>>
    /\ params_to_pass = <<>>
    /\ candidate = PyFloat(0)
    /\ echoed = <<>>
    /\ returned = NoResult
    /\ sweeps = 0
    /\ calls = 0
    /\ evaluated = FALSE
    /\ held_before_sweep = NoResult
    /\ solver_value = 0
    /\ objective_state = 0
    /\ invocations = <<>>

ModeSpec == ModeInit /\ [][Next]_vars

---------------------------------------------------------------------------
(* The codec alone: one call of _gather_params_to_pass on one fixed parameter
   and one candidate, then the decoding of func_to_optimize applied to what an
   echoing objective returns.  fixed_params, current_param (the mode of the
   parameter being optimized), candidate and i are the inputs. *)

CodecValues ==
    { PyInt(-7), PyInt(5), PyInt(79), PyFloat(-67), PyFloat(5), PyFloat(67),
      PyFloat(100), PyFloat(8752) }

CodecPoints == { PyFloat(-67), PyFloat(25), PyFloat(67), PyFloat(100) }

CodecInit ==
    /\ pc = "codec"
    /\ err = ""
    /\ function = [score |-> "lin", echo |-> "same"]
    /\ params = <<>>
    /\ bounds = <<>>
    /\ best_result = NoResult
    /\ result_of_all_params_iteration = NoResult
    /\ i \in {0, 1}
    /\ current_param \in
           {Param(PyFloat(0), r, n, 2) : r \in BOOLEAN, n \in BOOLEAN}
    /\ fixed_params \in
           {<<Param(v, r, n, 1)>> : v \in CodecValues,
                                    r \in BOOLEAN, n \in BOOLEAN}
    /\ results_of_single_param_optimization = <<>>
    /\ params_to_pass = <<>>
    /\ candidate \in CodecPoints
    /\ echoed = <<>>
    /\ returned = NoResult
    /\ sweeps = 0
    /\ calls = 0
    /\ evaluated = FALSE
    /\ held_before_sweep = NoResult
    /\ solver_value = 0
    /\ objective_state = 0
    /\ invocations = <<>>

\* params_to_pass = cls._gather_params_to_pass(...)
codec_gather ==
    /\ pc = "codec"
    /\ pc' = "gathered"
    /\ params_to_pass' =
           gather_params_to_pass(candidate, i, current_param.ratio,
                                 current_param.is_int, fixed_params)
    /\ UNCHANGED <<err, function, params, bounds, best_result,
                   result_of_all_params_iteration, i, current_param,
                   fixed_params, results_of_single_param_optimization,
                   candidate, echoed, returned, sweeps, calls, evaluated,
                   held_before_sweep, solver_value, objective_state,
                   invocations>>

\* result, settings = function(params_to_pass); settings_params = ...; append
codec_decode ==
    /\ pc = "gathered"
    /\ pc' = "decoded"
    /\ echoed' = Echo(function.echo, params_to_pass)
    /\ results_of_single_param_optimization' =
           <<Result(Score(function.score, params_to_pass),
                    settings_params_of(Echo(function.echo, params_to_pass)),
                    0)>>
    /\ solver_value' = Negated(Score(function.score, params_to_pass))
    /\ evaluated' = TRUE
    /\ UNCHANGED <<err, function, params, bounds, best_result,
                   result_of_all_params_iteration, i, current_param,
                   fixed_params, params_to_pass, candidate, returned, sweeps,
                   calls, held_before_sweep, objective_state, invocations>>

CodecNext ==
    \/ codec_gather
    \/ codec_decode

CodecSpec == CodecInit /\ [][CodecNext]_vars

---------------------------------------------------------------------------
(* Two invocations of optimize_one side by side on the one class attribute
   results_of_single_param_optimization: two optimizations run concurrently,
   or the objective of the first calls the optimizer again.  Invocation k
   optimizes params[k] alone (index 0, no fixed parameters) within bounds[k].
   invocations[k] holds its position, the number of evaluations its solver
   has made and the Result it returned; a Result in the history carries, in
   its field call, the invocation whose evaluation recorded it. *)

\* The list an invocation sees: a reader that sees only its own evaluations.
HistoryOf_own(history, k) ==
    SelectSeq(history, LAMBDA r : r.call = k)

\* cls.results_of_single_param_optimization: the attribute of the class, one
\* list whichever invocation reads or writes it.
HistoryOf(history, k) == history

SharedInit ==
    /\ pc = "shared"
    /\ err = ""
    /\ function = [score |-> "lin", echo |-> "same"]
    /\ params \in
           {[k \in 1..2 |-> Param(c[k][1], c[k][2], c[k][3], k)] :
               c \in [1..2 -> ParamChoices]}
    /\ bounds \in [1..2 -> BoundChoices]
    /\ best_result = NoResult
    /\ result_of_all_params_iteration = NoResult
    /\ i = 0
    /\ current_param = NoParam
    /\ fixed_params = <<>>
    /\ results_of_single_param_optimization = <<>>
    /\ params_to_pass = <<>>
    /\ candidate = PyFloat(0)
    /\ echoed = <<>>
    /\ returned = NoResult
    /\ sweeps = 0
    /\ calls = 0
    /\ evaluated = FALSE
    /\ held_before_sweep = NoResult
    /\ solver_value = 0
    /\ objective_state = 0
    /\ invocations =
           [k \in 1..2 |-> [pc |-> "idle", evals |-> 0, result |-> NoResult]]

\* optimize_one of invocation k begins: the clear.
shared_optimize_one_enter(k) ==
    /\ pc = "shared"
    /\ invocations[k].pc = "idle"
    /\ results_of_single_param_optimization' =
           Cleared(HistoryOf(results_of_single_param_optimization, k))
    /\ invocations' = [invocations EXCEPT ![k].pc = "minimize"]
    /\ UNCHANGED <<pc, err, function, params, bounds, best_result,
                   result_of_all_params_iteration, i, current_param,
                   fixed_params, params_to_pass, candidate, echoed, returned,
                   sweeps, calls, evaluated, held_before_sweep, solver_value,
                   objective_state>>

\* One evaluation by the solver of invocation k: func_to_optimize at x.
shared_func_to_optimize(k, x) ==
    /\ pc = "shared"
    /\ invocations[k].pc = "minimize"
    /\ invocations[k].evals < MaxEvals
    /\ LET passed == gather_params_to_pass(PyFloat(x), 0, params[k].ratio,
                                           params[k].is_int, <<>>)
           result == ObjectiveScore(function.score, passed, objective_state)
           settings == Echo(function.echo, passed)
       IN  /\ candidate' = PyFloat(x)
           /\ solver_value' = Negated(result)
           /\ params_to_pass' = passed
           /\ echoed' = settings
           /\ results_of_single_param_optimization' =
                  Append(HistoryOf(results_of_single_param_optimization, k),
                         Result(result, settings_params_of(settings), k))
    /\ objective_state' = ObjectiveNextState(function.score, objective_state)
    /\ evaluated' = TRUE
    /\ invocations' = [invocations EXCEPT ![k].evals = @ + 1]
    /\ UNCHANGED <<pc, err, function, params, bounds, best_result,
                   result_of_all_params_iteration, i, current_param,
                   fixed_params, returned, sweeps, calls, held_before_sweep>>

\* The solver of invocation k returns: the sort and the head of the list.
shared_optimize_one_return(k) ==
    /\ pc = "shared"
    /\ invocations[k].pc = "minimize"
    /\ LET sorted ==
               SortDescending(
                   HistoryOf(results_of_single_param_optimization, k))
       IN  /\ results_of_single_param_optimization' = sorted
           /\ invocations' =
                  IF sorted = <<>>
                  THEN [invocations EXCEPT ![k].pc = "error"]
                  ELSE [invocations EXCEPT ![k].pc = "returned",
                                           ![k].result = sorted[1]]
    /\ UNCHANGED <<pc, err, function, params, bounds, best_result,
                   result_of_all_params_iteration, i, current_param,
                   fixed_params, params_to_pass, candidate, echoed, returned,
                   sweeps, calls, evaluated, held_before_sweep, solver_value,
                   objective_state>>

\* minimize(tuned_function, [param.value], bounds=(param_bounds,)) of
\* invocation k.
SharedSolverPoints(k) == Candidates(params[k], bounds[k])

SharedNext ==
    \/ \E k \in DOMAIN invocations : shared_optimize_one_enter(k)
    \/ \E k \in DOMAIN invocations :
           \E x \in SharedSolverPoints(k) : shared_func_to_optimize(k, x)
    \/ \E k \in DOMAIN invocations : shared_optimize_one_return(k)

SharedSpec == SharedInit /\ [][SharedNext]_vars

---------------------------------------------------------------------------
(* Properties of optimize_all *)

\* C1: when optimize_all returns after a sweep over at least one dimension, it
\* returns the Result held before that sweep began (the sentinel
\* {value = 0, settings = params} after the first sweep), a Result recorded
\* before the sweep and so never the best_result the sweep has just computed.
C1_ReturnsResultHeldBeforeSweep ==
    (pc = "done" /\ Len(params) > 0) =>
        /\ returned = held_before_sweep
        /\ returned.call <= calls - Len(params)
        /\ best_result.call = calls
        /\ sweeps = 1 => returned = Result(0, params, 0)

\* A run that converged in its second sweep, whose best_result scores more
\* than the Result returned.
C1_Witness ==
    /\ pc = "done"
    /\ Len(params) > 0
    /\ sweeps = 2
    /\ best_result.value > returned.value
    /\ returned.value > 0

\* C3: with len(params) # len(bounds) optimize_all raises
\* DifferentListLengthException, and then no sweep has started, optimize_one
\* was never called and the objective was never evaluated.
C3_LengthMismatchBeforeAnyEvaluation ==
    (Len(params) # Len(bounds)) =>
        /\ pc \in {"start", "error"}
        /\ pc = "error" => err = "DifferentListLengthException"
        /\ sweeps = 0
        /\ calls = 0
        /\ ~evaluated
        /\ results_of_single_param_optimization = <<>>

C3_Witness ==
    /\ pc = "error"
    /\ err = "DifferentListLengthException"
    /\ Len(params) < Len(bounds)
    /\ ~evaluated

\* tuple with the element at 0-based position index removed.
WithoutPosition(seq, index) ==
    SubSeq(seq, 1, index) \o SubSeq(seq, index + 2, Len(seq))

\* C2: for params = (Param{value = 5, is_int, not ratio}), bounds = ((0, 10))
\* and the objective -(x - 7)^2 echoing its input, a run whose solver evaluated
\* the start point and a point within 1 of 7 returns a setting within 1 of 7.
C2_Example1ReturnsNearTarget ==
    ( /\ pc = "done"
      /\ params = <<Param(PyInt(5), FALSE, TRUE, 1)>>
      /\ bounds = << <<0, 100>> >>
      /\ function = [score |-> "negsq", echo |-> "same"]
      /\ \E k \in DOMAIN results_of_single_param_optimization :
            results_of_single_param_optimization[k].settings[1].value.v = 50
      /\ \E k \in DOMAIN results_of_single_param_optimization :
            Abs(results_of_single_param_optimization[k].settings[1].value.v
                - 70) <= 10 )
    => /\ Len(returned.settings) = 1
       /\ Abs(returned.settings[1].value.v - 70) <= 10

\* C4: with len(params) = len(bounds) = n and an objective echoing as many
\* settings as it receives, best_result.settings has n elements after every
\* optimize_one step, and so has the Result optimize_all returns.
C4_SettingsKeepTheirLength ==
    ( /\ Len(params) = Len(bounds)
      /\ function.echo = "same"
      /\ pc \in {"loop", "minimize", "check", "done"} )
    => /\ Len(best_result.settings) = Len(params)
       /\ pc = "done" => Len(returned.settings) = Len(params)

\* C5: in every sweep step for dimension i the fixed parameters handed to
\* optimize_one are best_result.settings without the element at position i.
C5_FixedParamsDropPositionOnly ==
    (pc = "minimize") =>
        fixed_params = WithoutPosition(best_result.settings, i)

\* C10: an evaluation whose echoed settings do not have len(fixed_params) + 1
\* elements makes optimize_one fail: it is not recorded, and optimize_one
\* returns no Result whose settings have another length.
C10_WrongLengthEchoIsRejected ==
    /\ \A k \in DOMAIN results_of_single_param_optimization :
          Len(results_of_single_param_optimization[k].settings)
              = Len(fixed_params) + 1
    /\ (pc \in {"loop", "check"} /\ calls > 0) =>
          Len(best_result.settings) = Len(fixed_params) + 1

\* C6: a sweep that ends with best_result.value - sweep_result.value equal to
\* the threshold does not return: sweep_result becomes best_result and another
\* sweep starts.
C6_ImprovementEqualToThresholdSweepsAgain ==
    [][ ( /\ pc = "check"
          /\ best_result.value - result_of_all_params_iteration.value
                 = 100 * MIN_DIFF_BETWEEN_ITERATIONS )
        => ( /\ pc' = SweepEntry
             /\ returned' = NoResult
             /\ result_of_all_params_iteration' = best_result
             /\ best_result' = best_result
             /\ sweeps' = sweeps + 1
             /\ i' = 0 ) ]_vars

\* The second sweep is about to start after a first sweep that improved on the
\* sentinel by exactly the threshold.
C6_Witness ==
    /\ pc = "loop"
    /\ sweeps = 2
    /\ i = 0
    /\ calls = Len(params)
    /\ result_of_all_params_iteration.value
           = 100 * MIN_DIFF_BETWEEN_ITERATIONS
    /\ result_of_all_params_iteration = best_result

\* C7: when optimize_one returns, the Result it returns is one of the
\* evaluations the objective received during the call and no evaluation of
\* the call scored more, whatever the order of the solver's points.
C7_ReturnsMaximumOfTheCall ==
    [][ ( /\ pc = "minimize"
          /\ pc' \in {"loop", "check"} )
        => ( /\ \E k \in DOMAIN results_of_single_param_optimization :
                   best_result' = results_of_single_param_optimization[k]
             /\ \A k \in DOMAIN results_of_single_param_optimization :
                   /\ best_result'.value
                          >= results_of_single_param_optimization[k].value
                   /\ results_of_single_param_optimization[k].call = calls ) ]_vars

\* optimize_one has returned from a call whose evaluations scored differently,
\* the best of them not being the first one recorded.
C7_Witness ==
    /\ pc \in {"loop", "check"}
    /\ calls > 0
    /\ Len(results_of_single_param_optimization) >= 2
    /\ best_result = results_of_single_param_optimization[1]
    /\ \E k \in DOMAIN results_of_single_param_optimization :
          results_of_single_param_optimization[k].value < best_result.value

---------------------------------------------------------------------------
(* Properties of the codec (under CodecSpec) *)

\* Position (from 1) of the fixed parameter and of the candidate on the wire.
FixedPosition == IF i = 0 THEN 2 ELSE 1
CandidatePosition == i + 1

\* The candidate as a Param in the mode of the parameter being optimized.
CandidateParam ==
    Param(candidate, current_param.ratio, current_param.is_int, 2)

\* The Params decoded from the echo.
Decoded == results_of_single_param_optimization[1].settings

SameFlagsAndValue(p, d) ==
    /\ d.ratio = p.ratio
    /\ d.is_int = p.is_int
    /\ d.value.v = p.value.v

\* A Param the codec can carry: not both ratio and is_int, and a whole number
\* when it is a non-ratio is_int.
Representable(p) ==
    /\ ~(p.ratio /\ p.is_int)
    /\ (~p.ratio /\ p.is_int) => p.value.v % 10 = 0

\* C8 as stated: every Param, whatever its flags and value, comes back from
\* encoding and decoding with the same ratio and is_int and the same value.
C8_RoundTripEveryParam ==
    (pc = "decoded") =>
        /\ SameFlagsAndValue(fixed_params[1], Decoded[FixedPosition])
        /\ SameFlagsAndValue(CandidateParam, Decoded[CandidatePosition])

\* C8 amended: a Param that does not set both ratio and is_int, and whose value
\* is a whole number when it is a non-ratio is_int, comes back from encoding
\* and decoding with the same ratio and is_int and the same value.
C8_RoundTripRepresentable ==
    (pc = "decoded") =>
        /\ Representable(fixed_params[1]) =>
              SameFlagsAndValue(fixed_params[1], Decoded[FixedPosition])
        /\ Representable(CandidateParam) =>
              SameFlagsAndValue(CandidateParam, Decoded[CandidatePosition])

\* A ratio 875.2 as fixed parameter and a ratio candidate 6.7, both decoded.
C8_Witness ==
    /\ pc = "decoded"
    /\ fixed_params[1] = Param(PyFloat(8752), TRUE, FALSE, 1)
    /\ CandidateParam = Param(PyFloat(67), TRUE, FALSE, 2)
    /\ Decoded[FixedPosition].value = PyFloat(8752)
    /\ Decoded[CandidatePosition].value = PyFloat(67)

\* The wire value is the int at or next to zero from the magnitude x:
\* |k| <= |x| < |k| + 1, with the sign of x unless k = 0.
TruncatedTowardZero(e, x) ==
    /\ e.t = "int"
    /\ e.v % 10 = 0
    /\ Abs(e.v) <= Abs(x.v)
    /\ Abs(x.v) < Abs(e.v) + 10
    /\ e.v # 0 => (e.v > 0 <=> x.v > 0)

\* C9 as stated: a non-ratio is_int parameter, fixed or candidate, goes on the
\* wire as the int round(value), the nearest integer (6.7 as 7).
C9_IntEncodingRounds ==
    (pc = "gathered") =>
        /\ (~fixed_params[1].ratio /\ fixed_params[1].is_int) =>
              params_to_pass[FixedPosition]
                  = PyInt(RoundHalfEven(fixed_params[1].value.v))
        /\ (~current_param.ratio /\ current_param.is_int) =>
              params_to_pass[CandidatePosition]
                  = PyInt(RoundHalfEven(candidate.v))

\* C9 amended: a non-ratio is_int parameter, fixed or candidate, goes on the
\* wire as the int int(value), the value truncated toward zero (6.7 as 6,
\* -6.7 as -6).
C9_IntEncodingTruncates ==
    (pc = "gathered") =>
        /\ (~fixed_params[1].ratio /\ fixed_params[1].is_int) =>
              TruncatedTowardZero(params_to_pass[FixedPosition],
                                  fixed_params[1].value)
        /\ (~current_param.ratio /\ current_param.is_int) =>
              TruncatedTowardZero(params_to_pass[CandidatePosition], candidate)

\* The candidate 6.7 and the fixed -6.7, both non-ratio is_int, on the wire.
C9_Witness ==
    /\ pc = "gathered"
    /\ ~fixed_params[1].ratio /\ fixed_params[1].is_int
    /\ ~current_param.ratio /\ current_param.is_int
    /\ fixed_params[1].value = PyFloat(-67)
    /\ candidate = PyFloat(67)
    /\ params_to_pass[FixedPosition] = PyInt(-6)
    /\ params_to_pass[CandidatePosition] = PyInt(6)

---------------------------------------------------------------------------
(* Properties of the history and of the sweep order (under Spec) *)

\* C11: when the solver returns from an optimize_one call in which it made no
\* evaluation, optimize_one raises (IndexError on the empty history) and
\* returns no Result: best_result keeps its value, optimize_all returns
\* nothing, and the run ends there with that error.
C11_NoEvaluationRaises ==
    [][ /\ ( /\ pc = "minimize"
             /\ params_to_pass = <<>>
             /\ pc' # "minimize" )
           => ( /\ pc' = "error"
                /\ err' = "IndexError"
                /\ best_result' = best_result
                /\ i' = i
                /\ returned' = NoResult )
        /\ pc # "error" ]_vars

\* The second or a later optimize_one call made no evaluation and raised,
\* after an earlier call had returned a Result.
C11_Witness ==
    /\ pc = "error"
    /\ err = "IndexError"
    /\ calls >= 2
    /\ results_of_single_param_optimization = <<>>
    /\ best_result.call = calls - 1
    /\ returned = NoResult

\* C12: every optimize_one call begins with an empty history, and the Result
\* it returns is one the history received during that same call (its tag is
\* the number of the call that returns it), never one of an earlier dimension
\* or sweep.
C12_ReturnedResultIsOfTheSameCall ==
    [][ /\ (pc # "minimize" /\ pc' = "minimize")
           => /\ results_of_single_param_optimization' = <<>>
              /\ calls' = calls + 1
        /\ (pc = "minimize" /\ pc' \in {"loop", "check"})
           => /\ calls' = calls
              /\ best_result'.call = calls
              /\ \E k \in 1..Len(results_of_single_param_optimization) :
                     results_of_single_param_optimization[k] = best_result'
        /\ (pc = "minimize" /\ pc' = "minimize")
           => \A k \in 1..Len(results_of_single_param_optimization') :
                  results_of_single_param_optimization'[k].call = calls ]_vars

\* In the second sweep an optimize_one call has returned, and what it
\* returned carries the number of that call.
C12_Witness ==
    /\ pc \in {"loop", "check"}
    /\ sweeps >= 2
    /\ calls >= 3
    /\ best_result.call = calls
    /\ Len(results_of_single_param_optimization) = MaxEvals

\* C13: the optimize_one calls of a sweep are made for the indices 0..n-1 in
\* that order; the Result a call returns replaces best_result whatever its
\* value; and the parameter optimized next (whose value is the solver's start
\* point) and the fixed parameters come from the settings of best_result,
\* which is the Result the call before returned.
C13_DimensionsInOrderOnLatestResult ==
    [][ /\ (pc = "loop" /\ pc' = "minimize")
           => /\ i' = i
              /\ i < Len(params)
              /\ calls' = (sweeps - 1) * Len(params) + i + 1
              /\ calls > 0 => best_result.call = calls
              /\ current_param' = best_result.settings[i + 1]
              /\ fixed_params' =
                     FixedParams(best_result.settings,
                                 best_result.settings[i + 1])
              /\ best_result' = best_result
        /\ (pc = "minimize" /\ pc' \in {"loop", "check"})
           => /\ i' = i + 1
              /\ best_result' =
                     SortDescending(results_of_single_param_optimization)[1]
              /\ (pc' = "check") = (i' = Len(params))
        /\ (pc = "check" /\ pc' = "loop")
           => (i' = 0 /\ best_result' = best_result) ]_vars

\* The call for index 0 returned a Result worse than the one best_result held
\* when the sweep began, best_result now holds it, and index 1 comes next.
C13_Witness ==
    /\ pc = "loop"
    /\ i = 1
    /\ best_result.call = calls
    /\ best_result.value < held_before_sweep.value

---------------------------------------------------------------------------
(* Properties of one evaluation (under Spec) *)

\* C14: in every evaluation of an optimize_one call with index i and fixed
\* parameters F, the sequence handed to the objective has len(F) + 1 elements,
\* the candidate encoded in the mode (ratio, is_int) of the parameter being
\* optimized stands at position i, the encoded elements of F fill the other
\* positions in their order, and the solver receives the negated score.
C14_PassedSequenceAndNegatedScore ==
    (pc = "minimize" /\ params_to_pass # <<>>)
    => /\ Len(params_to_pass) = Len(fixed_params) + 1
       /\ i + 1 <= Len(params_to_pass)
       /\ params_to_pass[i + 1] =
              Encode(candidate, current_param.ratio, current_param.is_int)
       /\ WithoutPosition(params_to_pass, i) =
              [k \in 1..Len(fixed_params) |->
                  Encode(fixed_params[k].value, fixed_params[k].ratio,
                         fixed_params[k].is_int)]
       /\ LET last == results_of_single_param_optimization[
                          Len(results_of_single_param_optimization)]
          IN  solver_value = -last.value

\* An evaluation for index 0 with one fixed parameter behind it: the candidate
\* went out in ratio form before an encoded fixed parameter that differs from
\* it, and the solver got a non-zero value.
C14_Witness ==
    /\ pc = "minimize"
    /\ i = 0
    /\ Len(fixed_params) = 1
    /\ Len(params_to_pass) = 2
    /\ current_param.ratio
    /\ params_to_pass[1] = RatioWire(candidate)
    /\ params_to_pass[2] # params_to_pass[1]
    /\ solver_value < 0

---------------------------------------------------------------------------
(* Properties of the sweeps (under Spec) *)

\* C15: optimize_all returns a Result only at the end of a full sweep whose
\* improvement best_result.value - result_of_all_params_iteration.value is
\* below the threshold; a sweep that improved by the threshold or more is
\* followed by another sweep, however many went before; and with an objective
\* whose every evaluation scores the threshold more than the one before (so
\* that every sweep over one dimension or more gains at least the threshold)
\* optimize_all never returns.
C15_ReturnsOnlyBelowThreshold ==
    [][ /\ (pc # "done" /\ pc' = "done")
           => /\ pc = "check"
              /\ i = Len(params)
              /\ best_result.value - result_of_all_params_iteration.value
                     < 100 * MIN_DIFF_BETWEEN_ITERATIONS
        /\ (returned' # returned) => (pc # "done" /\ pc' = "done")
        /\ ( /\ pc = "check"
             /\ pc' # "check"
             /\ best_result.value - result_of_all_params_iteration.value
                    >= 100 * MIN_DIFF_BETWEEN_ITERATIONS )
           => (sweeps' = sweeps + 1 /\ pc' = SweepEntry /\ returned' = NoResult)
        /\ (function.score = "rising" /\ Len(params) > 0)
           => pc' # "done" ]_vars

\* The ever-improving objective at the end of the last sweep the model
\* follows: every sweep so far gained the threshold or more, none returned.
C15_Witness ==
    /\ function.score = "rising"
    /\ pc = "check"
    /\ sweeps = MaxSweeps
    /\ returned = NoResult
    /\ best_result.value - result_of_all_params_iteration.value
           >= 100 * MIN_DIFF_BETWEEN_ITERATIONS

\* The Result optimize_all starts from: value 0 and the caller's params.
Sentinel == Result(0, params, 0)

\* A Result that an evaluation recorded, scoring the threshold or more.
RecordedAtLeastThreshold(r) ==
    /\ r.call >= 1
    /\ r.value >= 100 * MIN_DIFF_BETWEEN_ITERATIONS

\* C17: once optimize_all has set it, result_of_all_params_iteration is the
\* sentinel (value 0, settings = params) or a Result of value at least the
\* threshold (30); each replacement raises its value by the threshold or more,
\* so it never decreases; and what optimize_all returns is the sentinel or a
\* recorded evaluation scoring at least 30.
C17_SweepResultSentinelOrAtLeastThreshold ==
    [][ /\ sweeps' >= 1
           => \/ result_of_all_params_iteration' = Sentinel'
              \/ RecordedAtLeastThreshold(result_of_all_params_iteration')
        /\ ( /\ sweeps >= 1
             /\ result_of_all_params_iteration'
                    # result_of_all_params_iteration )
           => result_of_all_params_iteration'.value >=
                  result_of_all_params_iteration.value
                      + 100 * MIN_DIFF_BETWEEN_ITERATIONS
        /\ pc' = "done"
           => \/ returned' = Sentinel'
              \/ RecordedAtLeastThreshold(returned') ]_vars

\* optimize_all has returned after three sweeps or more: it replaced
\* result_of_all_params_iteration twice, and returns a recorded evaluation
\* that scores at least twice the threshold.
C17_Witness ==
    /\ pc = "done"
    /\ sweeps >= 3
    /\ returned.call >= 1
    /\ returned.value >= 2 * 100 * MIN_DIFF_BETWEEN_ITERATIONS
    /\ returned = result_of_all_params_iteration

\* An upper bound B (in hundredths) of every score the objective of the run
\* can return: "negsq" is never positive; "lin" adds 5 * x over the values it
\* is given, of which at most Len(params) are non-zero and none exceeds the
\* upper search bound 10.  The "rising" objective has no bound.
ScoreBound ==
    IF function.score = "negsq" THEN 0 ELSE 50 * 100 * Len(params)

\* C18: with an objective whose scores never exceed B, a run of optimize_all
\* ends (it returns, or an exception ends it) having started at most
\* floor(B / threshold) + 1 sweeps, and one sweep only when B < threshold.
C18_BoundedScoresBoundTheSweeps ==
    (pc = "start" /\ function.score # "rising")
    ~> ( /\ pc \in {"done", "error"}
         /\ sweeps <=
                ScoreBound \div (100 * MIN_DIFF_BETWEEN_ITERATIONS) + 1
         /\ ScoreBound < 100 * MIN_DIFF_BETWEEN_ITERATIONS => sweeps <= 1 )

\* A run that used all the sweeps the bound allows, more than one, and
\* returned.
C18_Witness ==
    /\ pc = "done"
    /\ function.score = "lin"
    /\ sweeps >= 2
    /\ sweeps = ScoreBound \div (100 * MIN_DIFF_BETWEEN_ITERATIONS) + 1
    /\ returned.call >= 1

\* C19: with an objective that echoes what it receives and params in which
\* no parameter is both ratio and is_int, after every optimize_one step each
\* setting of best_result has the ratio and is_int flags of the caller's
\* parameter at the same position, and none is both ratio and is_int.
C19_ModePreservedPerDimension ==
    ( /\ function.echo = "same"
      /\ calls >= 1
      /\ pc \in {"loop", "check", "done"} )
    => \A k \in 1..Len(params) :
           k <= Len(best_result.settings)
           => /\ best_result.settings[k].ratio = params[k].ratio
              /\ best_result.settings[k].is_int = params[k].is_int
              /\ ~(best_result.settings[k].ratio
                     /\ best_result.settings[k].is_int)

---------------------------------------------------------------------------
(* Properties of the shared history (under SharedSpec) *)

\* C16: the history is one list for all invocations of optimize_one: when an
\* invocation begins, the whole list is emptied, what the other invocation
\* recorded included; an evaluation of either invocation lands in that list;
\* and an invocation returns the best Result of the whole list, whichever
\* invocation recorded it.
C16_OneHistoryForAllInvocations ==
    [][ \A k \in DOMAIN invocations :
          /\ (invocations[k].pc = "idle" /\ invocations'[k].pc = "minimize")
             => results_of_single_param_optimization' = <<>>
          /\ invocations'[k].evals = invocations[k].evals + 1
             => /\ Len(results_of_single_param_optimization') =
                       Len(results_of_single_param_optimization) + 1
                /\ results_of_single_param_optimization'[
                       Len(results_of_single_param_optimization')].call = k
          /\ (invocations[k].pc = "minimize"
                 /\ invocations'[k].pc = "returned")
             => invocations'[k].result =
                    SortDescending(results_of_single_param_optimization)[1]
          /\ (invocations[k].pc = "minimize" /\ invocations'[k].pc = "error")
             => results_of_single_param_optimization = <<>> ]_vars

\* Invocation 1 made evaluations, the clear of invocation 2 discarded them
\* (none is left in the history), and invocation 1 returned a Result that an
\* evaluation of invocation 2 recorded.
C16_Witness ==
    /\ pc = "shared"
    /\ invocations[1].pc = "returned"
    /\ invocations[1].evals >= 1
    /\ invocations[1].result.call = 2
    /\ \A k \in 1..Len(results_of_single_param_optimization) :
           results_of_single_param_optimization[k].call = 2

====
